---------------------------- MODULE Spec2Model ----------------------------
(***************************************************************************)
(* Model of the ingestion-and-aggregation pipeline of the AI code review   *)
(* tool: src/app.py (extraction, folder enumeration, file walk, dispatch,   *)
(* report) and src/mcp_server.py (the review_zip tool).                     *)
(*                                                                         *)
(* Strings are sequences of one-character strings, so the substring test   *)
(* of the ignore filter and the suffix test of the extension filter are    *)
(* computed as Python computes them.  A path is a sequence of segment      *)
(* names; PathStr gives the string Python sees.                            *)
(***************************************************************************)
EXTENDS Naturals, Sequences, FiniteSets, TLC

VARIABLES
    disk,         \* temp directories on disk: generated name -> what was expanded into it
    listing,      \* the order in which the OS lists directory entries
    folder_path,  \* gr.State of the UI: the workspace of the last successful load
    choices,      \* choices of the folder CheckboxGroup (last enumeration result)
    pc,           \* "idle", or "walking" inside process_selected_folders
    run,          \* the call in progress / last call: handler, base_path, folders iterated
    found,        \* every file the walk of this run read, in traversal order
    sent,         \* every call made to the reviewer in this run, in order
    reviews,      \* the dict `reviews` of process_selected_folders, in iteration order
    report,       \* the document written by generate_report, or NoReport
    result        \* what the last handler call gave back to its caller

vars == <<disk, listing, folder_path, choices, pc, run, found, sent, reviews, report, result>>

-----------------------------------------------------------------------------
(* Bounds of the model *)

\* folders iterated by one run of process_selected_folders
MaxSel == 2
\* reviewer calls that fail in one run
MaxFails == 2
\* temp directories created in one behaviour
MaxWorkspaces == 1

-----------------------------------------------------------------------------
(* Names and strings *)

\* names mkdtemp can generate: "tmp" + 8 characters of [a-z0-9_]
TempNames == {"tmpk3x9q2ab", "tmpbin4k2x_"}

\* the characters of a directory or file name
Chars(n) ==
    CASE n = "src" -> <<"s","r","c">>
      [] n = "bin" -> <<"b","i","n">>
      [] n = "lib" -> <<"l","i","b">>
      [] n = "util" -> <<"u","t","i","l">>
      [] n = "tmp" -> <<"t","m","p">>
      [] n = "srv" -> <<"s","r","v">>
      [] n = ".." -> <<".",".">>
      [] n = "Program.cs" -> <<"P","r","o","g","r","a","m",".","c","s">>
      [] n = "Ignore.cs" -> <<"I","g","n","o","r","e",".","c","s">>
      [] n = "Util.py" -> <<"U","t","i","l",".","p","y">>
      [] n = "notes.txt" -> <<"n","o","t","e","s",".","t","x","t">>
      [] n = "Secret.py" -> <<"S","e","c","r","e","t",".","p","y">>
      [] n = "tmpk3x9q2ab" -> <<"t","m","p","k","3","x","9","q","2","a","b">>
      [] n = "tmpbin4k2x_" -> <<"t","m","p","b","i","n","4","k","2","x","_">>

ignore_folders == {
    <<".","v","e","n","v">>,
    <<"w","w","w","r","o","o","t">>,
    <<"n","o","d","e","_","m","o","d","u","l","e","s">>,
    <<"_","_","p","y","c","a","c","h","e","_","_">>,
    <<"b","i","n">>,
    <<"o","b","j">>,
    <<"p","r","o","p","e","r","t","i","e","s">>
}

ALLOWED_EXTS == {
    <<".","p","y">>,
    <<".","j","s">>,
    <<".","j","a","v","a">>,
    <<".","c","s">>,
    <<".","c","p","p">>,
    <<".","t","s">>,
    <<".","c","s","h","t","m","l">>,
    <<".","r","a","z","o","r">>
}

\* Python's `needle in hay` on strings
Contains(hay, needle) ==
    \/ needle = <<>>
    \/ \E i \in 1..Len(hay) :
          /\ hay[i] = needle[1]
          /\ i + Len(needle) - 1 <= Len(hay)
          /\ SubSeq(hay, i, i + Len(needle) - 1) = needle

\* Python's str.endswith
EndsWith(s, suffix) ==
    /\ Len(suffix) <= Len(s)
    /\ SubSeq(s, Len(s) - Len(suffix) + 1, Len(s)) = suffix

RECURSIVE JoinSegs(_)
\* "/seg1/seg2/...": the string of an absolute path
JoinSegs(segs) ==
    IF segs = <<>> THEN <<>>
    ELSE <<"/">> \o Chars(Head(segs)) \o JoinSegs(Tail(segs))

RECURSIVE RelStr(_)
\* "seg1/seg2/...": the string of a relative path
RelStr(segs) ==
    IF segs = <<>> THEN <<>>
    ELSE IF Len(segs) = 1 THEN Chars(Head(segs))
    ELSE Chars(Head(segs)) \o <<"/">> \o RelStr(Tail(segs))

PathStr(p) == IF p = <<>> THEN <<"/">> ELSE JoinSegs(p)

\* a folder label as the caller gives it: a relative or an absolute path string
Label(abs, segs) == [abs |-> abs, segs |-> segs]
LabelStr(l) == IF l.abs THEN PathStr(l.segs) ELSE RelStr(l.segs)

\* any(ignored in root for ignored in ignore_folders)
IsIgnored(root) == \E ignored \in ignore_folders : Contains(PathStr(root), ignored)

\* any(file.endswith(ext) for ext in ALLOWED_EXTS)
HasAllowedExt(file) == \E ext \in ALLOWED_EXTS : EndsWith(Chars(file), ext)

-----------------------------------------------------------------------------
(* Archives and the file system *)

\* None where a path is expected
NoPath == <<"None">>
\* no document was written
NoReport == [heading |-> "None", sections |-> <<>>]
\* content of a temp directory into which nothing was expanded
EmptyDir == "EmptyDir"
\* a temp name that names no directory on disk
Absent == "Absent"

\* the archives a caller can upload; "bad" is not a well-formed archive
WellFormed == {"proj", "dup"}
Archives == WellFormed \cup {"bad"}

\* directories of an archive, relative to its top
ArchiveDirs(a) ==
    CASE a = "proj" -> {<<"src">>, <<"bin">>, <<"bin", "util">>}
      [] a = "dup"  -> {<<"src">>, <<"src", "util">>, <<"lib">>}
      [] OTHER -> {}

\* files of an archive: directory relative to its top, and base name
ArchiveFiles(a) ==
    CASE a = "proj" -> {[dir |-> <<>>, name |-> "Util.py"],
                        [dir |-> <<"src">>, name |-> "Program.cs"],
                        [dir |-> <<"bin">>, name |-> "Ignore.cs"],
                        [dir |-> <<"bin", "util">>, name |-> "Program.cs"]}
      [] a = "dup"  -> {[dir |-> <<"src">>, name |-> "Program.cs"],
                        [dir |-> <<"src", "util">>, name |-> "Program.cs"],
                        [dir |-> <<"lib">>, name |-> "Util.py"],
                        [dir |-> <<"lib">>, name |-> "notes.txt"]}
      [] OTHER -> {}

\* tempfile.gettempdir()
TempRoot == <<"tmp">>

\* the absolute path of the temp directory mkdtemp named `name`
BasePath(name) == TempRoot \o <<name>>

\* directories and files of the host that no archive put there
HostDirs == {<<>>, <<"tmp">>, <<"srv">>}
HostFiles == {[dir |-> <<"srv">>, name |-> "Secret.py"]}

\* the temp directories that exist on disk
Existing(d) == {w \in TempNames : d[w] # Absent}

\* every directory on disk (absolute, normalised), d being the temp directories
Dirs(d) ==
    HostDirs
    \cup {BasePath(w) : w \in Existing(d)}
    \cup UNION {{BasePath(w) \o x : x \in ArchiveDirs(d[w])} : w \in Existing(d)}

\* every file on disk
Files(d) ==
    HostFiles
    \cup UNION {{[dir |-> BasePath(w) \o f.dir, name |-> f.name] : f \in ArchiveFiles(d[w])}
                : w \in Existing(d)}

\* the file system the program sees when the temp directories are d
FileSystem(d) == [dirs |-> Dirs(d), files |-> Files(d)]

RECURSIVE NormAcc(_, _)
NormAcc(p, acc) ==
    IF p = <<>> THEN acc
    ELSE IF Head(p) = ".."
         THEN NormAcc(Tail(p), IF acc = <<>> THEN acc ELSE SubSeq(acc, 1, Len(acc) - 1))
         ELSE NormAcc(Tail(p), Append(acc, Head(p)))

\* the directory the OS resolves an absolute path to
Norm(p) == NormAcc(p, <<>>)

IsPrefix(a, b) == Len(a) <= Len(b) /\ SubSeq(b, 1, Len(a)) = a

\* sub-directories of directory p, as the OS lists them
ChildDirs(fs, order, p) ==
    LET here == Norm(p)
    IN SelectSeq(order, LAMBDA n : Append(here, n) \in fs.dirs)

\* files of directory p, as the OS lists them
FilesIn(fs, order, p) ==
    LET here == Norm(p)
    IN SelectSeq(order, LAMBDA n : [dir |-> here, name |-> n] \in fs.files)

RECURSIVE Walk(_, _, _)
RECURSIVE WalkEach(_, _, _, _)
\* the `root` values os.walk(top) yields, top-down
Walk(fs, order, top) ==
    IF Norm(top) \notin fs.dirs THEN <<>>
    ELSE <<top>> \o WalkEach(fs, order, top, ChildDirs(fs, order, top))
WalkEach(fs, order, top, kids) ==
    IF kids = <<>> THEN <<>>
    ELSE Walk(fs, order, Append(top, Head(kids))) \o WalkEach(fs, order, top, Tail(kids))


\* the directory-listing orders considered (os.walk does not sort)
Order1 == <<"bin", "lib", "src", "util", "Ignore.cs", "Program.cs", "Secret.py",
            "Util.py", "notes.txt", "srv", "tmp", "tmpbin4k2x_", "tmpk3x9q2ab">>
Reverse(s) == [i \in 1..Len(s) |-> s[Len(s) + 1 - i]]
Listings == {Order1, Reverse(Order1)}

-----------------------------------------------------------------------------
(* list_subfolders *)

\* mutation: the root is labelled like every other folder, by its relative path
RootLabelRelative(base) == Label(FALSE, <<>>)

\* os.path.basename(folder_path), as a folder label
RootLabel(base) == Label(FALSE, <<base[Len(base)]>>)

\* os.path.relpath(p, base) for p below base
RelPath(p, base) == Label(FALSE, SubSeq(p, Len(base) + 1, Len(p)))

RECURSIVE LabelsOfDirs(_, _, _)
\* for d in dirs: folders.append(relpath(join(root, d), folder_path))
LabelsOfDirs(root, kids, base) ==
    IF kids = <<>> THEN <<>>
    ELSE <<RelPath(Append(root, Head(kids)), base)>> \o LabelsOfDirs(root, Tail(kids), base)

RECURSIVE ListFrom(_, _, _, _)
\* the loop over os.walk(folder_path): the test is made on `root`, the parent of d
ListFrom(fs, order, roots, base) ==
    IF roots = <<>> THEN <<>>
    ELSE (IF IsIgnored(Head(roots)) THEN <<>>
          ELSE LabelsOfDirs(Head(roots), ChildDirs(fs, order, Head(roots)), base))
         \o ListFrom(fs, order, Tail(roots), base)

list_subfolders(fs, order, base) ==
    <<RootLabel(base)>> \o ListFrom(fs, order, Walk(fs, order, base), base)

-----------------------------------------------------------------------------
(* process_selected_folders, analyze_code_with_ai, generate_report *)

\* base_path if subfolder == basename(base_path) else os.path.join(base_path, subfolder)
FullPath(base, subfolder) ==
    IF subfolder = RootLabel(base) THEN base
    ELSE IF subfolder.abs THEN subfolder.segs
    ELSE base \o subfolder.segs

RECURSIVE ItemsOf(_, _)
ItemsOf(root, files) ==
    IF files = <<>> THEN <<>>
    ELSE (IF HasAllowedExt(Head(files))
          THEN <<[root |-> root, file |-> Head(files)]>> ELSE <<>>)
         \o ItemsOf(root, Tail(files))

RECURSIVE DiscoverFromUnfiltered(_, _, _)
\* mutation: the walk reads every directory, the ignore test left out
DiscoverFromUnfiltered(fs, order, roots) ==
    IF roots = <<>> THEN <<>>
    ELSE ItemsOf(Head(roots), FilesIn(fs, order, Head(roots)))
         \o DiscoverFromUnfiltered(fs, order, Tail(roots))

RECURSIVE DiscoverFrom(_, _, _)
\* the files the loop over os.walk(full_path) reads, in order
DiscoverFrom(fs, order, roots) ==
    IF roots = <<>> THEN <<>>
    ELSE (IF IsIgnored(Head(roots)) THEN <<>>
          ELSE ItemsOf(Head(roots), FilesIn(fs, order, Head(roots))))
         \o DiscoverFrom(fs, order, Tail(roots))

Discovered(fs, order, base, subfolder) ==
    DiscoverFrom(fs, order, Walk(fs, order, FullPath(base, subfolder)))

\* the text analyze_code_with_ai returns for reviewer call number `call`: the
\* reviewer's answer, or the error message when the call raised
analyze_code_with_ai(call, ok) ==
    [kind |-> IF ok THEN "review" ELSE "error", call |-> call]

HasKey(d, key) == \E i \in 1..Len(d) : d[i].fname = key

\* mutation: an existing key keeps its first value (dict.setdefault)
InsertKeepFirst(d, key, val) ==
    IF HasKey(d, key) THEN d ELSE Append(d, [fname |-> key, text |-> val])

\* mutation: an overwritten key moves to the end (delete, then insert)
InsertMoveToEnd(d, key, val) ==
    Append(SelectSeq(d, LAMBDA e : e.fname # key), [fname |-> key, text |-> val])

\* reviews[key] = val on a Python dict (iteration order = first insertion)
Insert(d, key, val) ==
    IF HasKey(d, key)
    THEN [i \in 1..Len(d) |-> IF d[i].fname = key THEN [fname |-> key, text |-> val] ELSE d[i]]
    ELSE Append(d, [fname |-> key, text |-> val])

RECURSIVE DispatchFrom(_, _, _, _)
\* the body of the loops for items i.. of one selected folder; fails = the
\* positions whose reviewer call raises
DispatchFrom(st, items, fails, i) ==
    IF i > Len(items) THEN st
    ELSE LET call == Len(st.sent) + 1
             ok == i \notin fails
         IN DispatchFrom(
               [sent |-> Append(st.sent, [root |-> items[i].root, file |-> items[i].file,
                                          ok |-> ok]),
                reviews |-> Insert(st.reviews, items[i].file, analyze_code_with_ai(call, ok))],
               items, fails, i + 1)

\* mutation: a reviewer call that raises ends the loop (no try/except around it)
ProcessFolderAbort(st, items, fails) ==
    LET stop == IF fails = {} THEN Len(items)
                ELSE CHOOSE i \in fails : \A j \in fails : i <= j
    IN DispatchFrom(st, SubSeq(items, 1, stop), fails, 1)

\* one iteration of `for subfolder in selected_folders`
ProcessFolder(st, items, fails) == DispatchFrom(st, items, fails, 1)

ReportTitle == "Code Review Report"

generate_report(d) ==
    [heading |-> ReportTitle,
     sections |-> [i \in 1..Len(d) |-> [title |-> d[i].fname, body |-> d[i].text]]]

\* extract_zip_to_temp: mkdtemp made `name`; a well-formed archive is expanded
\* into it, anything else raises after the directory was made
extract_zip_to_temp(d, name, zip) ==
    [d EXCEPT ![name] = IF zip \in WellFormed THEN zip ELSE EmptyDir]

\* names mkdtemp can return now
FreshNames(d) ==
    IF Cardinality(Existing(d)) < MaxWorkspaces
    THEN {n \in TempNames : d[n] = Absent} ELSE {}

FailCount(s) == Cardinality({i \in 1..Len(s) : ~s[i].ok})

\* the choices of which of n reviewer calls raise, at most `budget` of them
FailSets(n, budget) == {f \in SUBSET (1..n) : Cardinality(f) <= budget}

-----------------------------------------------------------------------------
(* Handlers *)

NoRun == [handler |-> "none", base |-> NoPath, selected |-> <<>>]

Init ==
    /\ disk = [n \in TempNames |-> Absent]
    /\ listing \in Listings
    /\ folder_path = NoPath
    /\ choices = <<>>
    /\ pc = "idle"
    /\ run = NoRun
    /\ found = <<>>
    /\ sent = <<>>
    /\ reviews = <<>>
    /\ report = NoReport
    /\ result = "none"

\* load_subfolders_from_zip with no upload
LoadNoZip ==
    /\ pc = "idle"
    /\ result' = "no_zip"
    /\ run' = NoRun /\ found' = <<>> /\ sent' = <<>> /\ reviews' = <<>> /\ report' = NoReport
    /\ UNCHANGED <<disk, listing, folder_path, choices, pc>>

\* load_subfolders_from_zip(zip_file)
LoadSubfoldersFromZip(zip, name) ==
    /\ pc = "idle"
    /\ name \in FreshNames(disk)
    /\ disk' = extract_zip_to_temp(disk, name, zip)
    /\ IF zip \in WellFormed
       THEN /\ folder_path' = BasePath(name)
            /\ choices' = list_subfolders(FileSystem(disk'), listing, BasePath(name))
            /\ result' = "loaded"
       ELSE /\ result' = "raised"
            /\ UNCHANGED <<folder_path, choices>>
    /\ run' = NoRun /\ found' = <<>> /\ sent' = <<>> /\ reviews' = <<>> /\ report' = NoReport
    /\ UNCHANGED <<listing, pc>>

\* review_zip_selected declines: no workspace, or nothing selected
ReviewZipSelectedDeclined ==
    /\ pc = "idle"
    /\ \/ folder_path = NoPath /\ result' = "invalid_path"
       \/ folder_path # NoPath /\ result' = "no_selection"
    /\ run' = NoRun /\ found' = <<>> /\ sent' = <<>> /\ reviews' = <<>> /\ report' = NoReport
    /\ UNCHANGED <<disk, listing, folder_path, choices, pc>>

\* review_zip_selected with a non-empty selection enters process_selected_folders
ReviewZipSelectedStart ==
    /\ pc = "idle"
    /\ folder_path # NoPath
    /\ pc' = "walking"
    /\ run' = [handler |-> "ui", base |-> folder_path, selected |-> <<>>]
    /\ found' = <<>> /\ sent' = <<>> /\ reviews' = <<>> /\ report' = NoReport
    /\ result' = "running"
    /\ UNCHANGED <<disk, listing, folder_path, choices>>

\* review_zip: the path names no file
ReviewZipNotFound ==
    /\ pc = "idle"
    /\ result' = "zip_not_found"
    /\ run' = NoRun /\ found' = <<>> /\ sent' = <<>> /\ reviews' = <<>> /\ report' = NoReport
    /\ UNCHANGED <<disk, listing, folder_path, choices, pc>>

\* review_zip(zip_path, folders): extraction, then process_selected_folders;
\* given = the caller passed a non-empty `folders`
ReviewZipStart(zip, name, given) ==
    /\ pc = "idle"
    /\ name \in FreshNames(disk)
    /\ disk' = extract_zip_to_temp(disk, name, zip)
    /\ IF zip \in WellFormed
       THEN /\ pc' = "walking"
            /\ run' = [handler |-> IF given THEN "tool" ELSE "tool_default",
                       base |-> BasePath(name), selected |-> <<>>]
            /\ result' = "running"
       ELSE /\ result' = "raised"
            /\ run' = NoRun
            /\ UNCHANGED pc
    /\ found' = <<>> /\ sent' = <<>> /\ reviews' = <<>> /\ report' = NoReport
    /\ UNCHANGED <<listing, folder_path, choices>>

\* the labels a caller of the review_zip tool may pass
ToolLabels(d, base) ==
    {RootLabel(base)}
    \cup {Label(FALSE, x) : x \in ArchiveDirs(d[base[Len(base)]])}
    \cup {Label(FALSE, <<"..", "..", "srv">>), Label(TRUE, <<"srv">>)}

\* the labels the next element of selected_folders is drawn from: the UI's
\* CheckboxGroup gives each ticked choice once, a tool caller gives any list
Selectable ==
    CASE run.handler = "ui" -> {choices[i] : i \in 1..Len(choices)}
                                \ {run.selected[i] : i \in 1..Len(run.selected)}
      [] run.handler = "tool" -> ToolLabels(disk, run.base)
      [] run.handler = "tool_default" -> {RootLabel(run.base)}
      [] OTHER -> {}

SelLimit == IF run.handler = "tool_default" THEN 1 ELSE MaxSel

\* one iteration of the loop over selected_folders
NextFolder(subfolder) ==
    /\ pc = "walking"
    /\ Len(run.selected) < SelLimit
    /\ subfolder \in Selectable
    /\ LET items == Discovered(FileSystem(disk), listing, run.base, subfolder)
       IN /\ found' = found \o items
          /\ \E fails \in FailSets(Len(items), MaxFails - FailCount(sent)) :
                LET st == ProcessFolder([sent |-> sent, reviews |-> reviews], items, fails)
                IN sent' = st.sent /\ reviews' = st.reviews
    /\ run' = [run EXCEPT !.selected = Append(@, subfolder)]
    /\ UNCHANGED <<disk, listing, folder_path, choices, pc, report, result>>

\* the loop is over: `if not reviews` / generate_report / return
Return ==
    /\ pc = "walking"
    /\ Len(run.selected) >= 1
    /\ pc' = "idle"
    /\ IF reviews = <<>>
       THEN result' = "no_files" /\ report' = NoReport
       ELSE result' = "reviewed" /\ report' = generate_report(reviews)
    /\ UNCHANGED <<disk, listing, folder_path, choices, run, found, sent, reviews>>

Next ==
    \/ LoadNoZip
    \/ \E zip \in Archives, name \in TempNames : LoadSubfoldersFromZip(zip, name)
    \/ ReviewZipSelectedDeclined
    \/ ReviewZipSelectedStart
    \/ ReviewZipNotFound
    \/ \E zip \in Archives, name \in TempNames, given \in BOOLEAN :
           ReviewZipStart(zip, name, given)
    \/ \E subfolder \in Selectable : NextFolder(subfolder)
    \/ Return

Spec == Init /\ [][Next]_vars

-----------------------------------------------------------------------------
(* Vocabulary of the properties *)

\* a run of process_selected_folders is in progress or has returned
InRun == run.handler # "none"
\* the run has returned to its handler
Returned == InRun /\ pc = "idle"

RECURSIVE AllItems(_, _, _, _)
\* the files the walk over the folders `selected` discovers, in traversal order
AllItems(fs, order, base, selected) ==
    IF selected = <<>> THEN <<>>
    ELSE Discovered(fs, order, base, Head(selected))
         \o AllItems(fs, order, base, Tail(selected))

\* the path string contains a token of the ignore set (stated apart from the code)
HasIgnoreToken(str) ==
    \E t \in ignore_folders :
        \E i \in 1..Len(str) :
            /\ str[i] = t[1]
            /\ i + Len(t) - 1 <= Len(str)
            /\ \A j \in 1..Len(t) : str[i + j - 1] = t[j]

\* call k is the last reviewer call for its base filename
IsLastOfName(k) == \A j \in (k + 1)..Len(sent) : sent[j].file # sent[k].file
\* call k is the first reviewer call for its base filename
IsFirstOfName(k) == \A j \in 1..(k - 1) : sent[j].file # sent[k].file

\* the text the batch must hold for call k
TextOfCall(k) == [kind |-> IF sent[k].ok THEN "review" ELSE "error", call |-> k]

\* the batch entry of a filename
EntriesOf(name) == {i \in 1..Len(reviews) : reviews[i].fname = name}

\* the file on disk that call k read
RealFile(k) == [dir |-> Norm(sent[k].root), name |-> sent[k].file]

-----------------------------------------------------------------------------
(* C1 *)

\* C1 (as amended): whatever reviewer calls fail, every discovered file of every
\* selected folder is dispatched, in traversal order; the batch holds, for every
\* base filename, the outcome of the last call made for that name (the reviewer's
\* text if that call succeeded, the error text if it failed), and an error text
\* stands in the batch only for a call that failed.
C1_FailureIsolation ==
    InRun =>
        /\ [k \in 1..Len(sent) |-> [root |-> sent[k].root, file |-> sent[k].file]] = found
        /\ \A k \in 1..Len(sent) :
              IsLastOfName(k) => \E i \in 1..Len(reviews) :
                  reviews[i] = [fname |-> sent[k].file, text |-> TextOfCall(k)]
        /\ \A i \in 1..Len(reviews) :
              /\ reviews[i].text.call \in 1..Len(sent)
              /\ reviews[i].text.kind = "error" <=> ~sent[reviews[i].text.call].ok

\* a returned batch in which a call failed and a later call, for another
\* filename, succeeded
C1_Witness ==
    /\ Returned /\ result = "reviewed"
    /\ \E j, k \in 1..Len(sent) :
          /\ j < k /\ ~sent[j].ok /\ sent[k].ok /\ sent[j].file # sent[k].file
          /\ \E i \in 1..Len(reviews) : reviews[i].text = TextOfCall(j)
          /\ \E i \in 1..Len(reviews) : reviews[i].text = TextOfCall(k)

\* C1 as stated: the returned batch holds the reviewer's text for every file whose
\* call succeeded, and an error text only for the files whose call failed
C1_Original ==
    Returned =>
        \A k \in 1..Len(sent) : \A i \in EntriesOf(sent[k].file) :
            /\ sent[k].ok => reviews[i].text.kind = "review"
            /\ reviews[i].text.kind = "error" => ~sent[k].ok

-----------------------------------------------------------------------------
(* C2 *)

\* C2: no folder path returned by list_subfolders (the paths below the root
\* label) contains a token of the ignore set as a substring
C2_NoIgnoredFolderListed ==
    result = "loaded" =>
        \A i \in 2..Len(choices) : ~HasIgnoreToken(LabelStr(choices[i]))

-----------------------------------------------------------------------------
(* C3 *)

\* C3: no file whose containing directory path contains an ignore token is sent
\* to the reviewer, and every batch key and every report section comes from a
\* call made for a file outside any such directory
C3_IgnoredNeverSent ==
    LET clean == {k \in 1..Len(sent) : ~HasIgnoreToken(PathStr(sent[k].root))}
    IN /\ clean = 1..Len(sent)
       /\ \A i \in 1..Len(reviews) :
             \E k \in clean :
                 sent[k].file = reviews[i].fname /\ reviews[i].text.call = k
       /\ \A i \in 1..Len(report.sections) :
             \E k \in clean : sent[k].file = report.sections[i].title

\* a returned batch of a run that selected an ignored directory holding a
\* file with an allowed extension, and walked into one from a selected ancestor
C3_Witness ==
    /\ Returned /\ result = "reviewed"
    /\ \E a, b \in 1..Len(run.selected) :
          LET fs == FileSystem(disk)
              top == FullPath(run.base, run.selected[a])
              anc == Walk(fs, listing, FullPath(run.base, run.selected[b]))
          IN /\ HasIgnoreToken(PathStr(top))
             /\ ItemsOf(top, FilesIn(fs, listing, top)) # <<>>
             /\ \E r \in 2..Len(anc) :
                   /\ ~HasIgnoreToken(PathStr(anc[1]))
                   /\ HasIgnoreToken(PathStr(anc[r]))
                   /\ ItemsOf(anc[r], FilesIn(fs, listing, anc[r])) # <<>>

-----------------------------------------------------------------------------
(* C4 *)

\* C4: the batch has exactly one entry for every base filename discovered, its
\* text is the result of the call for the file of that name processed last in
\* traversal order, and the batch size is the number of distinct base filenames
C4_LastWriteWins ==
    InRun =>
        LET names == {found[k].file : k \in 1..Len(found)}
        IN /\ \A n \in names :
                LET last == CHOOSE k \in 1..Len(found) :
                                /\ found[k].file = n
                                /\ \A j \in (k + 1)..Len(found) : found[j].file # n
                IN /\ Cardinality(EntriesOf(n)) = 1
                   /\ \A i \in EntriesOf(n) :
                         /\ reviews[i].text.call = last
                         /\ sent[last].root = found[last].root
           /\ Len(reviews) = Cardinality(names)

\* a returned batch of a walk that met two different files of one base filename
C4_Witness ==
    /\ Returned /\ result = "reviewed"
    /\ \E j, k \in 1..Len(sent) :
          /\ j < k /\ sent[j].file = sent[k].file /\ RealFile(j) # RealFile(k)
          /\ Len(reviews) < Len(sent)

-----------------------------------------------------------------------------
(* C5 *)

\* C5: in a run over folders taken from the enumeration result, every file the
\* walk finds reviewable is sent to the reviewer exactly once
C5_EachFileOnce ==
    (Returned /\ run.handler = "ui") =>
        \A f \in {[dir |-> Norm(found[k].root), name |-> found[k].file] : k \in 1..Len(found)} :
            Cardinality({k \in 1..Len(sent) : RealFile(k) = f}) = 1

-----------------------------------------------------------------------------
(* C6 *)

\* C6: the report has one section per batch entry, title = filename and body =
\* review text, in the batch's order, which is the order in which each filename
\* was first inserted during the walk
C6_ReportFollowsBatch ==
    result = "reviewed" =>
        /\ report # NoReport
        /\ Len(report.sections) = Len(reviews)
        /\ \A i \in 1..Len(reviews) :
              /\ report.sections[i].title = reviews[i].fname
              /\ report.sections[i].body = reviews[i].text
        /\ \A i, j \in 1..Len(report.sections) :
              i < j =>
                \E a, b \in 1..Len(sent) :
                    /\ a < b
                    /\ IsFirstOfName(a) /\ sent[a].file = report.sections[i].title
                    /\ IsFirstOfName(b) /\ sent[b].file = report.sections[j].title

\* a report whose earlier section holds the text of a later call than the
\* section after it: a duplicate replaced the text and the entry kept its place
C6_Witness ==
    /\ result = "reviewed"
    /\ \E i \in 1..(Len(report.sections) - 1) :
          report.sections[i].body.call > report.sections[i + 1].body.call

-----------------------------------------------------------------------------
(* C7 *)

\* C7 (as amended): after a well-formed archive is extracted, the first folder
\* label of the enumeration is the base name of the workspace directory, the
\* name mkdtemp generated
C7_RootLabelIsWorkspaceName ==
    result = "loaded" =>
        /\ Len(choices) >= 1
        /\ choices[1] = [abs |-> FALSE, segs |-> <<folder_path[Len(folder_path)]>>]
        /\ folder_path[Len(folder_path)] \in TempNames

\* a loaded archive with folders below the root
C7_Witness == result = "loaded" /\ Len(choices) > 1

\* C7 as stated: the root folder label equals the archive's own top-level name
C7_Original ==
    result = "loaded" =>
        choices[1] = [abs |-> FALSE, segs |-> <<disk[folder_path[Len(folder_path)]]>>]

-----------------------------------------------------------------------------
(* C8 *)

\* C8: a call that is given a malformed archive leaves no temp directory behind
\* that did not exist before the call
C8_FailedExtractionLeavesNothing ==
    [][(result' = "raised") => (Existing(disk') \subseteq Existing(disk))]_vars

-----------------------------------------------------------------------------
(* C9 *)

\* C9: every file read and sent to the reviewer lies inside the workspace tree
C9_Containment ==
    \A k \in 1..Len(sent) : IsPrefix(run.base, Norm(sent[k].root))

-----------------------------------------------------------------------------
(* C10 *)

\* the temp directories when the tree of workspace `base` sits under name n
Relocated(base, n) ==
    [m \in TempNames |-> IF m = n THEN disk[base[Len(base)]] ELSE Absent]

\* a selection, made for workspace `base`, as made for workspace name n
RelocatedSelection(selected, base, n) ==
    [i \in 1..Len(selected) |->
        IF selected[i] = RootLabel(base) THEN RootLabel(BasePath(n)) ELSE selected[i]]

\* the files of a walk, by their place below the workspace root
BelowRoot(items, base) ==
    [k \in 1..Len(items) |->
        [dir |-> SubSeq(items[k].root, Len(base) + 1, Len(items[k].root)),
         file |-> items[k].file]]

\* C10: for the same tree and the same selection, the folders enumerated and
\* the files sent to the reviewer are the same whatever the generated name
\* of the workspace root
C10_LocationIndependence ==
    /\ result = "loaded" =>
          \A n \in TempNames :
              Tail(list_subfolders(FileSystem(Relocated(folder_path, n)), listing, BasePath(n)))
                  = Tail(choices)
    /\ (Returned /\ run.handler = "ui") =>
          \A n \in TempNames :
              BelowRoot(AllItems(FileSystem(Relocated(run.base, n)), listing, BasePath(n),
                                 RelocatedSelection(run.selected, run.base, n)),
                        BasePath(n))
                  = BelowRoot(sent, run.base)

=============================================================================
